---- MODULE Spec2Model ----
(***************************************************************************)
(* Model of the student simulation environment of src/environment.py:      *)
(* class StudentEnv (reset / step / _test / _train and their helpers), the *)
(* gain profile generator _get_mean_skills_gains and the variant           *)
(* StudentEnvBypass.                                                       *)
(*                                                                         *)
(* numpy float64 values are modelled as exact rationals <<n, d>> in lowest *)
(* terms with d > 0, so equal values have equal representations.  A draw   *)
(* of the random generator is an input of the operation that makes it,     *)
(* taken from a small set of samples.                                      *)
(***************************************************************************)
EXTENDS Integers, Sequences, FiniteSets, TLC

(* ------------------------------ rationals ------------------------------ *)

Abs(x) == IF x < 0 THEN -x ELSE x

RECURSIVE GCD(_, _)
GCD(a, b) == IF b = 0 THEN a ELSE GCD(b, a % b)

\* n / d in lowest terms (TLC evaluates an operator's argument once, a LET
\* definition at every use: values used more than once are passed as arguments)
Reduced(n, d, g) == <<n \div g, d \div g>>
Rat(n, d) ==
    IF d < 0 THEN Reduced(-n, -d, GCD(Abs(n), Abs(d)))
    ELSE Reduced(n, d, GCD(Abs(n), Abs(d)))

R(n) == <<n, 1>>
RAdd(a, b) == Rat(a[1] * b[2] + b[1] * a[2], a[2] * b[2])
RSub(a, b) == Rat(a[1] * b[2] - b[1] * a[2], a[2] * b[2])
RMul(a, b) == Rat(a[1] * b[1], a[2] * b[2])
RDiv(a, b) == Rat(a[1] * b[2], a[2] * b[1])
RLe(a, b) == a[1] * b[2] <= b[1] * a[2]
RLt(a, b) == a[1] * b[2] < b[1] * a[2]
RMax(a, b) == IF RLt(a, b) THEN b ELSE a
RMin(a, b) == IF RLt(b, a) THEN b ELSE a

RECURSIVE RPow(_, _)
RPow(a, k) == IF k = 0 THEN R(1) ELSE RMul(a, RPow(a, k - 1))

RECURSIVE RSum(_, _, _)
\* f[lo] + ... + f[hi]
RSum(f, lo, hi) == IF hi < lo THEN R(0) ELSE RAdd(RSum(f, lo, hi - 1), f[hi])

\* np.average([a, b], weights=[wa, wb]) on scalars
Average(a, b, wa, wb) == RDiv(RAdd(RMul(a, wa), RMul(b, wb)), RAdd(wa, wb))

\* np.argmax: the first index of the largest value
ArgMax(f) ==
    CHOOSE i \in DOMAIN f : /\ \A k \in DOMAIN f : RLe(f[k], f[i])
                            /\ \A k \in DOMAIN f : k < i => RLt(f[k], f[i])

(* ------------------------- constants of the module --------------------- *)

MEAN_START_SKILL_LEVEL == 20
STD_START_SKILL_LEVEL == 10
STUDENT_SKILL_GAIN_STD == Rat(1, 5)
TEST_SCORE_STD == Rat(1, 2)
TARGET_SCORE == 95
REVIEW_RATIO == Rat(1, 4)
REWARD_FOR_ACHIEVING_TARGET_LEVEL == 200
REWARD_FOR_ACHIEVING_ALL_LEVELS == 2000
PENALTY_FOR_UNNECESSARY_TEST == -700
TIME_PENALTY_FOR_TEST == -2
GAIN_MULTIPLIER_FOR_TEST == 0
NOT_ADAPTED_DIFFICULTY_PENALTY == Rat(1, 4)
PROPER_LEARNING_TYPE_REWARD == 0

\* the shape the generator hard-codes in np.tile(..., (3, 1)) and size=(3, 3)
PROFILE_DIM == 3

\* Python's None, for a value that is a number when present
None == <<>>


(* ------------------------------- bounds -------------------------------- *)

\* step() is taken while step_num < MaxSteps, reset() while episode < MaxEpisodes
MaxSteps == 4
MaxEpisodes == 1

\* (num_subjects, num_difficulty_levels, num_learning_types) of the constructor
Configs == {<<1, 1, 1>>, <<1, 1, 2>>, <<1, 2, 1>>, <<1, 2, 2>>, <<2, 1, 1>>}

\* standard normal samples behind np.random.normal(mean, std) = mean + std * z
Normal(mean, std, z) == RAdd(mean, RMul(std, z))

\* the samples the steps of the model draw, for the test score (std 0.5) and
\* for the skill gain (std 0.2), and the samples the properties of a single
\* test or training are checked with
TestSamples == {R(1)}
GainSamples == {R(-2)}
ScoreSamples == {R(-5), R(0), R(5)}
SkillSamples == {R(-20), R(600)}

\* The draws the constructor or reset() makes, as the generator hands them
\* out from one of its states: zs, the samples of the start skills (subject
\* s takes the s-th, 20 + 10 z being 97, 50, 20 or -5), then the draws of
\* the gain profile generator in source order: the coin, the sample of the
\* excellence type, the samples of the two other types, the per-cell noise.
ConstNoise(z) == [i \in 0..(PROFILE_DIM - 1) |-> [j \in 0..(PROFILE_DIM - 1) |-> z]]
InitDraws ==
    { [zs |-> <<Rat(77, 10), Rat(77, 10)>>,
       coin |-> Rat(3, 4), exc |-> R(0), oth |-> <<R(0), R(0)>>, noise |-> ConstNoise(R(0))],
      [zs |-> <<R(3), Rat(-5, 2)>>,
       coin |-> Rat(1, 4), exc |-> R(0), oth |-> <<R(0), R(-1)>>, noise |-> ConstNoise(R(-2))] }
ResetDraws ==
    { [zs |-> <<R(0), Rat(77, 10)>>,
       coin |-> Rat(3, 4), exc |-> R(1), oth |-> <<R(-1), R(0)>>, noise |-> ConstNoise(R(1))] }
SampleFor(zs, s) == zs[(s % Len(zs)) + 1]

\* prob_ratio arguments of StudentEnvBypass: None (the default) or a vector
ProbRatioArgs == {None, <<Rat(1, 2), Rat(1, 2)>>}

(* ------------------------------- state --------------------------------- *)

VARIABLES
    cls,                     \* "StudentEnv" or "StudentEnvBypass"
    prob_ratio,              \* StudentEnvBypass.prob_ratio (None in StudentEnv)
    num_subjects, difficulties_levels, learning_type_number,
    skills_levels,           \* [subject -> skill]
    last_scores,             \* [subject -> [difficulty -> [field -> value]]]
    mean_skill_gains,        \* [row -> [column -> mean gain]]
    difficulties_thresholds, \* [difficulty -> threshold]
    review_ratio,
    cumulative_train_time,   \* [subject -> weighted trainings since last test]
    train_counter,           \* [subject -> [difficulty -> [type -> weight]]]
    episode, step_num,
    last_action,
    ret                      \* what the last call returned or raised

envvars == <<cls, prob_ratio, num_subjects, difficulties_levels, learning_type_number,
             skills_levels, last_scores, mean_skill_gains, difficulties_thresholds,
             review_ratio, cumulative_train_time, train_counter, episode, step_num,
             last_action>>
vars == <<envvars, ret>>

\* the environment object as one value
Self ==
    [cls |-> cls, prob_ratio |-> prob_ratio, num_subjects |-> num_subjects,
     difficulties_levels |-> difficulties_levels,
     learning_type_number |-> learning_type_number,
     skills_levels |-> skills_levels, last_scores |-> last_scores,
     mean_skill_gains |-> mean_skill_gains,
     difficulties_thresholds |-> difficulties_thresholds,
     review_ratio |-> review_ratio,
     cumulative_train_time |-> cumulative_train_time,
     train_counter |-> train_counter, episode |-> episode, step_num |-> step_num,
     last_action |-> last_action]

Zeros(n) == [i \in 0..(n - 1) |-> R(0)]

NoAction ==
    [action |-> "None", subject |-> 0, difficulty |-> 0, test_score |-> None,
     improvement |-> None, learning_type |-> 0, reward |-> None]

(* ------------------------- gain profile generator ---------------------- *)

\* np.maximum(np.tile(row, (3, 1)) + np.random.normal(0, 0.05, size=(3, 3)),
\*            np.full(shape=(3, 3), fill_value=0.05))
TiledProfile(row, noise) ==
    [i \in 0..(PROFILE_DIM - 1) |->
        [j \in 0..(PROFILE_DIM - 1) |->
            RMax(RAdd(row[j + 1], Normal(R(0), Rat(1, 20), noise[i][j])), Rat(1, 20))]]

\* _get_mean_skills_gains: both parameters are unused, the shape is 3 x 3
_get_mean_skills_gains(subjects_number, learning_types_number, dr) ==
    IF RLt(Rat(1, 2), dr.coin)
    THEN TiledProfile(<<Normal(R(3), Rat(1, 5), dr.exc),
                        Normal(Rat(3, 10), Rat(1, 10), dr.oth[1]),
                        Normal(Rat(3, 10), Rat(1, 10), dr.oth[2])>>, dr.noise)
    ELSE TiledProfile(<<Normal(Rat(1, 5), Rat(1, 10), dr.oth[1]),
                        Normal(Rat(1, 5), Rat(1, 10), dr.oth[2]),
                        Normal(R(3), Rat(1, 5), dr.exc)>>, dr.noise)

\* np.linspace(0, 100, num=n, endpoint=False)
Linspace(n) == [k \in 0..(n - 1) |-> Rat(100 * k, n)]

\* np.maximum(np.random.normal(MEAN, STD, size=n), 0)
StartSkills(n, zs) ==
    [s \in 0..(n - 1) |->
        RMax(Normal(R(MEAN_START_SKILL_LEVEL), R(STD_START_SKILL_LEVEL), SampleFor(zs, s)),
             R(0))]

\* StudentEnv.__init__
StudentEnv__init__(S, D, L, dr) ==
    [cls |-> "StudentEnv", prob_ratio |-> None,
     num_subjects |-> S, difficulties_levels |-> D, learning_type_number |-> L,
     skills_levels |-> StartSkills(S, dr.zs),
     last_scores |-> [s \in 0..(S - 1) |-> [d \in 0..(D - 1) |-> Zeros(2 * L + 2)]],
     mean_skill_gains |-> _get_mean_skills_gains(S, L, dr),
     difficulties_thresholds |-> Linspace(D),
     review_ratio |-> Rat(1, D + 1),
     cumulative_train_time |-> [s \in 0..(S - 1) |-> 0],
     train_counter |-> [s \in 0..(S - 1) |-> [d \in 0..(D - 1) |-> Zeros(L)]],
     episode |-> 0, step_num |-> 0, last_action |-> NoAction]

\* reset() without the line that zeroes cumulative_train_time
reset_KeepsTrainTime(e, dr) ==
    [e EXCEPT
       !.skills_levels = StartSkills(Cardinality(DOMAIN e.skills_levels), dr.zs),
       !.last_scores = [s \in DOMAIN e.last_scores |->
                          [d \in DOMAIN e.last_scores[s] |->
                             [f \in DOMAIN e.last_scores[s][d] |-> R(0)]]],
       !.mean_skill_gains = _get_mean_skills_gains(Cardinality(DOMAIN e.mean_skill_gains),
                                                    Cardinality(DOMAIN e.mean_skill_gains[0]), dr),
       !.difficulties_thresholds = Linspace(e.difficulties_levels),
       !.train_counter = [s \in DOMAIN e.train_counter |->
                            [d \in DOMAIN e.train_counter[s] |->
                               [t \in DOMAIN e.train_counter[s][d] |-> R(0)]]],
       !.episode = e.episode + 1,
       !.step_num = 0]

\* StudentEnv.reset
reset(e, dr) ==
    [e EXCEPT
       !.skills_levels = StartSkills(Cardinality(DOMAIN e.skills_levels), dr.zs),
       !.last_scores = [s \in DOMAIN e.last_scores |->
                          [d \in DOMAIN e.last_scores[s] |->
                             [f \in DOMAIN e.last_scores[s][d] |-> R(0)]]],
       !.mean_skill_gains = _get_mean_skills_gains(Cardinality(DOMAIN e.mean_skill_gains),
                                                    Cardinality(DOMAIN e.mean_skill_gains[0]), dr),
       !.difficulties_thresholds = Linspace(e.difficulties_levels),
       !.cumulative_train_time = [s \in DOMAIN e.cumulative_train_time |-> 0],
       !.train_counter = [s \in DOMAIN e.train_counter |->
                            [d \in DOMAIN e.train_counter[s] |->
                               [t \in DOMAIN e.train_counter[s][d] |-> R(0)]]],
       !.episode = e.episode + 1,
       !.step_num = 0]

\* the fields StudentEnvBypass.__init__ copies over those of the base constructor
CopiedFrom(base, studentenvcopy, prob_ratio_arg) ==
    [base EXCEPT
       !.cls = "StudentEnvBypass",
       !.last_scores = studentenvcopy.last_scores,
       !.cumulative_train_time = studentenvcopy.cumulative_train_time,
       !.train_counter = studentenvcopy.train_counter,
       !.episode = studentenvcopy.episode,
       !.step_num = studentenvcopy.step_num,
       !.prob_ratio = IF prob_ratio_arg # None THEN prob_ratio_arg
                      ELSE <<Rat(4, 5), Rat(1, 10), Rat(1, 10)>>,
       !.mean_skill_gains = studentenvcopy.mean_skill_gains,
       !.skills_levels = studentenvcopy.skills_levels]

\* StudentEnvBypass.__init__
StudentEnvBypass__init__(studentenvcopy, prob_ratio_arg, dr) ==
    CopiedFrom(StudentEnv__init__(studentenvcopy.num_subjects,
                                  studentenvcopy.difficulties_levels,
                                  studentenvcopy.learning_type_number, dr),
               studentenvcopy, prob_ratio_arg)

(* ------------------------------ rewards -------------------------------- *)

\* A reward is the real number  rat + coef / sqrt(n) - sqrt(m)  with rat and
\* coef rational; n is 1 when coef is 0.
Reward(rat, coef, n, m) ==
    [rat |-> rat, coef |-> coef, n |-> IF coef = R(0) THEN 1 ELSE n, m |-> m]

\* reward += q, and reward += -np.sqrt(k) for a reward that has no such term
RewardPlus(rw, q) == [rw EXCEPT !.rat = RAdd(@, q)]
RewardMinusSqrt(rw, k) == [rw EXCEPT !.m = k]

(* --------------------------- skill estimation -------------------------- *)

\* utils.estimate_skills(scores, review_ratio), for one subject: tier 0
\* counts in full, a higher tier counts for what exceeds its review share
EstimateOne(row, rr, D) ==
    RSum([d \in DOMAIN row |->
            IF d = 0 THEN RDiv(row[d], R(D))
            ELSE RDiv(RDiv(RMax(RSub(row[d], RMul(rr, R(100))), R(0)), RSub(R(1), rr)),
                      R(D))],
         0, D - 1)

estimate_skills(scores, rr) ==
    [s \in DOMAIN scores |-> EstimateOne(scores[s], rr, Cardinality(DOMAIN scores[s]))]

\* last_scores[:, :, 0]
ScoreLayer(e) ==
    [s \in DOMAIN e.last_scores |-> [d \in DOMAIN e.last_scores[s] |-> e.last_scores[s][d][0]]]

(* ------------------------ difficulty classification -------------------- *)

\* the classification with < in the place of <=
_get_proper_difficulty_Strict(e, skill) ==
    Cardinality({k \in DOMAIN e.difficulties_thresholds :
                   RLt(e.difficulties_thresholds[k], skill)}) - 1

\* sum(self.difficulties_thresholds <= skill) - 1
_get_proper_difficulty(e, skill) ==
    Cardinality({k \in DOMAIN e.difficulties_thresholds :
                   RLe(e.difficulties_thresholds[k], skill)}) - 1

_get_not_adapted_learning_penalty(e, skill, learning_difficulty) ==
    RPow(NOT_ADAPTED_DIFFICULTY_PENALTY,
         Abs(learning_difficulty - _get_proper_difficulty(e, skill)))

_get_scaled_mean_score(e, subject, difficulty) ==
    RMul(RSub(e.skills_levels[subject], e.difficulties_thresholds[difficulty]),
         R(e.difficulties_levels))

_get_too_hard_test_mean(e, subject, difficulty, proper_difficulty) ==
    RMul(RPow(e.review_ratio, difficulty - proper_difficulty),
         _get_scaled_mean_score(e, subject, proper_difficulty))

\* review_score*100 + proper_mean*(1 - review_score)
BlendWithReview(proper_mean, review_score) ==
    RAdd(RMul(review_score, R(100)), RMul(proper_mean, RSub(R(1), review_score)))

_get_proper_test_mean(e, subject, difficulty) ==
    BlendWithReview(_get_scaled_mean_score(e, subject, difficulty),
                    IF difficulty # 0 THEN e.review_ratio ELSE R(0))

\* the three cases of _get_test_mean
TestMeanFor(e, subject, difficulty, proper_difficulty) ==
    IF proper_difficulty < difficulty
    THEN _get_too_hard_test_mean(e, subject, difficulty, proper_difficulty)
    ELSE IF proper_difficulty > difficulty THEN R(100)
    ELSE _get_proper_test_mean(e, subject, difficulty)

_get_test_mean(e, subject, difficulty) ==
    TestMeanFor(e, subject, difficulty,
                _get_proper_difficulty(e, e.skills_levels[subject]))

(* ---------------------------- gain attribution ------------------------- *)

\* A method returns [env, exc, value]: the object after the call, the name of
\* the exception it raised ("" for none) and its return value.
Returned(e, v) == [env |-> e, exc |-> "", value |-> v]
Raised(e, x) == [env |-> e, exc |-> x, value |-> None]

\* last_scores[subject, difficulty, 2:2+L] and last_scores[subject, difficulty, -L:]
TrainingsSinceTest(e, subject, difficulty) ==
    [t \in 0..(e.learning_type_number - 1) |-> e.last_scores[subject][difficulty][2 + t]]
TypeGains(e, subject, difficulty) ==
    [t \in 0..(e.learning_type_number - 1) |->
        e.last_scores[subject][difficulty][2 + e.learning_type_number + t]]

\* the counters with the share subtracted, not added
CountShares_Subtracts(e, subject, last_ratio) ==
    [e EXCEPT !.train_counter[subject] =
        [d \in DOMAIN @ |->
            IF d < e.learning_type_number
            THEN [t \in DOMAIN @[d] |-> RSub(@[d][t], last_ratio)]
            ELSE @[d]]]

\* for d in range(L): train_counter[subject, d, :] += ratio, where `ratio`
\* is by then the scalar the loop over the types left in it: the share of the
\* last type.  Rows 0 .. min(L, D) - 1 are updated (row D raises IndexError).
CountShares(e, subject, last_ratio) ==
    [e EXCEPT !.train_counter[subject] =
        [d \in DOMAIN @ |->
            IF d < e.learning_type_number
            THEN [t \in DOMAIN @[d] |-> RAdd(@[d][t], last_ratio)]
            ELSE @[d]]]

\* the blend with the share of the last type as the weight of every type
BlendTypeGains_LastRatio(e, subject, difficulty, stored, tc, ratio, new_gain) ==
    IF e.learning_type_number > e.difficulties_levels
    THEN Raised(CountShares(e, subject, ratio[e.learning_type_number - 1]), "IndexError")
    ELSE Returned(CountShares(e, subject, ratio[e.learning_type_number - 1]),
                  [t \in DOMAIN tc |->
                      IF tc[t] = R(0) THEN new_gain
                      ELSE Average(stored[t], new_gain, tc[t],
                                   ratio[e.learning_type_number - 1])])

\* the branch of _get_mean_type_gain for a positive number of trainings
BlendTypeGains(e, subject, difficulty, stored, tc, ratio, new_gain) ==
    IF \E t \in DOMAIN tc : tc[t] # R(0) /\ RAdd(tc[t], ratio[t]) = R(0)
    THEN Raised(e, "ZeroDivisionError")
    ELSE IF e.learning_type_number > e.difficulties_levels
    THEN Raised(CountShares(e, subject, ratio[e.learning_type_number - 1]), "IndexError")
    ELSE Returned(CountShares(e, subject, ratio[e.learning_type_number - 1]),
                  [t \in DOMAIN tc |->
                      IF tc[t] = R(0) THEN new_gain
                      ELSE Average(stored[t], new_gain, tc[t], ratio[t])])

\* the attribution that answers zeros, not the stored gains, for a cell
\* without trainings
MeanTypeGainOf_Zeros(e, subject, difficulty, estimated_improvement, trainings, total) ==
    IF RLt(R(0), total)
    THEN BlendTypeGains(e, subject, difficulty, TypeGains(e, subject, difficulty),
                        e.train_counter[subject][difficulty],
                        [t \in DOMAIN trainings |-> RDiv(trainings[t], total)],
                        RDiv(estimated_improvement, total))
    ELSE Returned(e, Zeros(e.learning_type_number))

\* _get_mean_type_gain, given the trainings since the last test and their sum
MeanTypeGainOf(e, subject, difficulty, estimated_improvement, trainings, total) ==
    IF RLt(R(0), total)
    THEN BlendTypeGains(e, subject, difficulty, TypeGains(e, subject, difficulty),
                        e.train_counter[subject][difficulty],
                        [t \in DOMAIN trainings |-> RDiv(trainings[t], total)],
                        RDiv(estimated_improvement, total))
    ELSE Returned(e, TypeGains(e, subject, difficulty))

\* np.sum of a vector indexed from 0
VectorSum(v) == RSum(v, 0, Cardinality(DOMAIN v) - 1)

\* StudentEnv._get_mean_type_gain
_get_mean_type_gain(e, subject, difficulty, estimated_improvement) ==
    MeanTypeGainOf(e, subject, difficulty, estimated_improvement,
                   TrainingsSinceTest(e, subject, difficulty),
                   VectorSum(TrainingsSinceTest(e, subject, difficulty)))

(* -------------------------------- test --------------------------------- *)

\* the loop of _test without the assignment to the tested subject's row:
\* every subject's row is averaged with the new gains, weights 1 and 0.5
SpreadTypeGains_DampsAll(e, subject, mean_type_gain) ==
    [e EXCEPT !.last_scores =
        [s \in DOMAIN @ |-> [d \in DOMAIN @[s] |-> [f \in DOMAIN @[s][d] |->
            IF f < 2 + e.learning_type_number THEN @[s][d][f]
            ELSE Average(@[s][d][f],
                         mean_type_gain[f - 2 - e.learning_type_number],
                         R(1), Rat(1, 2))]]]]

\* the loop of _test that writes the per-type gains into every row: the
\* tested subject's row is first set to the new gains, then every subject's
\* row (the tested one included) is averaged with them, weights 1 and 0.5
SpreadTypeGains(e, subject, mean_type_gain) ==
    [e EXCEPT !.last_scores =
        [s \in DOMAIN @ |-> [d \in DOMAIN @[s] |-> [f \in DOMAIN @[s][d] |->
            IF f < 2 + e.learning_type_number THEN @[s][d][f]
            ELSE Average(IF s = subject THEN mean_type_gain[f - 2 - e.learning_type_number]
                         ELSE @[s][d][f],
                         mean_type_gain[f - 2 - e.learning_type_number],
                         R(1), Rat(1, 2))]]]]

\* the end of _test that zeroes the train counters of the cell as well
ClearTrainings_ClearsCounter(e, subject, difficulty) ==
    [e EXCEPT
       !.last_scores[subject][difficulty] =
           [f \in DOMAIN @ |->
               IF f \in 2..(2 + e.learning_type_number - 1) THEN R(0) ELSE @[f]],
       !.train_counter[subject][difficulty] = [t \in DOMAIN @ |-> R(0)],
       !.last_action.test_score = e.last_scores[subject][difficulty][0]]

\* last_scores[subject, difficulty, 2:2+L] = 0, and the logged test score
ClearTrainings(e, subject, difficulty) ==
    [e EXCEPT
       !.last_scores[subject][difficulty] =
           [f \in DOMAIN @ |->
               IF f \in 2..(2 + e.learning_type_number - 1) THEN R(0) ELSE @[f]],
       !.last_action.test_score = e.last_scores[subject][difficulty][0]]

\* the reward of _test that pays the target reward whatever the score before
TestReward_PaysAgain(e, subject, difficulty, previous_score, score) ==
    IF e.cumulative_train_time[subject] = 0
    THEN Reward(R(TIME_PENALTY_FOR_TEST), R(0), 1, 0)
    ELSE IF RLe(R(TARGET_SCORE), score)
    THEN Reward(Rat(REWARD_FOR_ACHIEVING_TARGET_LEVEL * (difficulty + 1),
                    e.difficulties_levels), R(0), 1, 0)
    ELSE Reward(R(TIME_PENALTY_FOR_TEST),
                RMul(R(GAIN_MULTIPLIER_FOR_TEST),
                     RDiv(RSub(score, previous_score),
                          R(e.cumulative_train_time[subject]))),
                e.step_num + 1, 0)

\* the reward of _test with the target looked at before the training time
TestReward_TargetFirst(e, subject, difficulty, previous_score, score) ==
    IF RLe(R(TARGET_SCORE), score)
    THEN IF RLt(previous_score, R(TARGET_SCORE))
         THEN Reward(Rat(REWARD_FOR_ACHIEVING_TARGET_LEVEL * (difficulty + 1),
                         e.difficulties_levels), R(0), 1, 0)
         ELSE Reward(R(PENALTY_FOR_UNNECESSARY_TEST), R(0), 1, 0)
    ELSE IF e.cumulative_train_time[subject] = 0
    THEN Reward(R(TIME_PENALTY_FOR_TEST), R(0), 1, 0)
    ELSE Reward(R(TIME_PENALTY_FOR_TEST),
                RMul(R(GAIN_MULTIPLIER_FOR_TEST),
                     RDiv(RSub(score, previous_score),
                          R(e.cumulative_train_time[subject]))),
                e.step_num + 1, 0)

\* the reward _test returns, from the score before and after the test and
\* the training time of the subject
TestReward(e, subject, difficulty, previous_score, score) ==
    IF e.cumulative_train_time[subject] = 0
    THEN Reward(R(TIME_PENALTY_FOR_TEST), R(0), 1, 0)
    ELSE IF RLe(R(TARGET_SCORE), score)
    THEN IF RLt(previous_score, R(TARGET_SCORE))
         THEN Reward(Rat(REWARD_FOR_ACHIEVING_TARGET_LEVEL * (difficulty + 1),
                         e.difficulties_levels), R(0), 1, 0)
         ELSE Reward(R(PENALTY_FOR_UNNECESSARY_TEST), R(0), 1, 0)
    ELSE Reward(R(TIME_PENALTY_FOR_TEST),
                RMul(R(GAIN_MULTIPLIER_FOR_TEST),
                     RDiv(RSub(score, previous_score),
                          R(e.cumulative_train_time[subject]))),
                e.step_num + 1, 0)

\* _test from the attribution on: the rows, the counters, the reward
TestAttributed(e, subject, difficulty, previous_score, gain) ==
    IF gain.exc # "" THEN gain
    ELSE Returned(ClearTrainings(SpreadTypeGains(gain.env, subject, gain.value),
                                 subject, difficulty),
                  TestReward(gain.env, subject, difficulty, previous_score,
                             gain.env.last_scores[subject][difficulty][0]))

\* _test from the stored score on: `before` is the object before the score
\* was stored, e the object after
TestScored(before, e, subject, difficulty) ==
    TestAttributed(e, subject, difficulty, before.last_scores[subject][difficulty][0],
        _get_mean_type_gain(e, subject, difficulty,
            RSub(estimate_skills(ScoreLayer(e), REVIEW_RATIO)[subject],
                 estimate_skills(ScoreLayer(before), REVIEW_RATIO)[subject])))

\* the two assignments that store the gain and the sampled score
StoreScore(e, subject, difficulty, sampled_test_score) ==
    [e EXCEPT !.last_scores[subject][difficulty] =
        [f \in DOMAIN @ |->
            IF f = 1 THEN RSub(sampled_test_score, @[0])
            ELSE IF f = 0 THEN sampled_test_score ELSE @[f]]]

\* the sampled score without its clamp
SampleTestScore_Unclamped(test_mean, z) == Normal(test_mean, TEST_SCORE_STD, z)

\* min(max(np.random.normal(test_mean, TEST_SCORE_STD), 0), 100)
SampleTestScore(test_mean, z) ==
    RMin(RMax(Normal(test_mean, TEST_SCORE_STD, z), R(0)), R(100))

\* StudentEnv._test; z is the sample behind np.random.normal
_test(e, subject, difficulty, z) ==
    TestScored(e, StoreScore(e, subject, difficulty,
                             SampleTestScore(_get_test_mean(e, subject, difficulty), z)),
               subject, difficulty)

(* -------------------------------- train -------------------------------- *)

\* np.sum(self.mean_skill_gains, axis=0) and
\* np.sum(self.last_scores[:, :, -L:], axis=(0, 1)), as functions of the type
GainColumnSums(e) ==
    [j \in DOMAIN e.mean_skill_gains[0] |->
        RSum([i \in DOMAIN e.mean_skill_gains |-> e.mean_skill_gains[i][j]],
             0, Cardinality(DOMAIN e.mean_skill_gains) - 1)]
TypeGainSums(e) ==
    [t \in 0..(e.learning_type_number - 1) |->
        RSum([s \in DOMAIN e.last_scores |->
                RSum([d \in DOMAIN e.last_scores[s] |->
                        e.last_scores[s][d][2 + e.learning_type_number + t]],
                     0, e.difficulties_levels - 1)],
             0, e.num_subjects - 1)]

\* the reward of _train: the bonus for the type that is best in the profile
\* and in the estimates (what _train computes from estimate_skills besides
\* is not used)
TrainReward(e, learning_type) ==
    IF learning_type = ArgMax(GainColumnSums(e)) /\ ArgMax(TypeGainSums(e)) = learning_type
    THEN Reward(R(PROPER_LEARNING_TYPE_REWARD), R(0), 1, 0)
    ELSE Reward(R(0), R(0), 1, 0)

\* the count of a training booked on the first learning type
CountTraining_FirstType(e, subject, learning_type, learning_difficulty) ==
    IF 2 + learning_type \notin DOMAIN e.last_scores[subject][learning_difficulty]
    THEN Raised(e, "IndexError")
    ELSE Returned([e EXCEPT !.last_scores[subject][learning_difficulty][2] = RAdd(@, R(1))],
                  None)

\* last_scores[subject, learning_difficulty, 2 + learning_type] += 1, an
\* IndexError when the cell has no such field
CountTraining(e, subject, learning_type, learning_difficulty) ==
    IF 2 + learning_type \notin DOMAIN e.last_scores[subject][learning_difficulty]
    THEN Raised(e, "IndexError")
    ELSE Returned([e EXCEPT !.last_scores[subject][learning_difficulty][2 + learning_type] =
                                RAdd(@, R(1))],
                  None)

\* _train from the counting on
TrainCounted(counted, learning_type) ==
    IF counted.exc # "" THEN counted
    ELSE Returned(counted.env, TrainReward(counted.env, learning_type))

\* the skill after a training without its clamp
TrainedSkill_Unclamped(e, subject, adjusted_gain) ==
    RAdd(e.skills_levels[subject], adjusted_gain)

\* skills_levels[subject] += adjusted_gain, then min(skills_levels[subject], 100)
TrainedSkill(e, subject, adjusted_gain) ==
    RMin(RAdd(e.skills_levels[subject], adjusted_gain), R(100))

\* _train that adds 1 to the train time, whatever the learning type
TrainGained_CountsOne(e, subject, learning_type, learning_difficulty, adjusted_gain) ==
    TrainCounted(
        CountTraining([e EXCEPT
                         !.skills_levels[subject] = TrainedSkill(e, subject, adjusted_gain),
                         !.last_action.improvement = RMax(adjusted_gain, R(0)),
                         !.last_action.learning_type = learning_type + 1,
                         !.cumulative_train_time[subject] = @ + 1],
                      subject, learning_type, learning_difficulty),
        learning_type)

\* _train from the adjusted gain on
TrainGained(e, subject, learning_type, learning_difficulty, adjusted_gain) ==
    TrainCounted(
        CountTraining([e EXCEPT
                         !.skills_levels[subject] = TrainedSkill(e, subject, adjusted_gain),
                         !.last_action.improvement = RMax(adjusted_gain, R(0)),
                         !.last_action.learning_type = learning_type + 1,
                         !.cumulative_train_time[subject] = @ + (learning_type + 1)],
                      subject, learning_type, learning_difficulty),
        learning_type)

\* the adjusted gain without max(..., 0)
AdjustedGain_Signed(e, subject, learning_type, learning_difficulty, z) ==
    RMul(Normal(e.mean_skill_gains[subject][learning_type], STUDENT_SKILL_GAIN_STD, z),
         _get_not_adapted_learning_penalty(e, e.skills_levels[subject], learning_difficulty))

\* max(sampled_gain * penalty, 0)
AdjustedGain(e, subject, learning_type, learning_difficulty, z) ==
    RMax(RMul(Normal(e.mean_skill_gains[subject][learning_type], STUDENT_SKILL_GAIN_STD, z),
              _get_not_adapted_learning_penalty(e, e.skills_levels[subject],
                                                learning_difficulty)),
         R(0))

\* StudentEnv._train; z is the sample behind np.random.normal.  The read of
\* mean_skill_gains[subject, learning_type] raises IndexError outside the
\* 3 x 3 matrix, before anything is written.
_train(e, subject, learning_type, learning_difficulty, z) ==
    IF ~(/\ subject \in DOMAIN e.mean_skill_gains
         /\ learning_type \in DOMAIN e.mean_skill_gains[0])
    THEN Raised(e, "IndexError")
    ELSE TrainGained(e, subject, learning_type, learning_difficulty,
                     AdjustedGain(e, subject, learning_type, learning_difficulty, z))

(* -------------------------------- step --------------------------------- *)

\* the bounds of spaces.MultiDiscrete([2, S, D, L, D])
NVec(e) == <<2, e.num_subjects, e.difficulties_levels, e.learning_type_number,
             e.difficulties_levels>>

\* self.action_space.contains(action)
ActionSpaceContains(e, action) ==
    /\ Len(action) = Len(NVec(e))
    /\ \A i \in 1..Len(action) : 0 <= action[i] /\ action[i] < NVec(e)[i]

\* the object once step() has stored the dictionary of the action
Logged(e, action) ==
    [e EXCEPT !.last_action =
        [NoAction EXCEPT !.action = IF action[1] = 1 THEN "test" ELSE "train",
                         !.subject = action[2] + 1,
                         !.difficulty = (IF action[1] = 1 THEN action[3] ELSE action[5]) + 1]]

\* the completion check on the first difficulty, not the last
AllFirstScoresAboveTarget(e) ==
    \A s \in DOMAIN e.last_scores : RLt(R(TARGET_SCORE), e.last_scores[s][0][0])

\* (self.last_scores[:, -1, 0] > TARGET_SCORE).all()
AllTopScoresAboveTarget(e) ==
    \A s \in DOMAIN e.last_scores :
        RLt(R(TARGET_SCORE), e.last_scores[s][e.difficulties_levels - 1][0])

\* StudentEnv.step, its last lines: the step cost, the logged reward, the
\* step counter, the returned tuple
FinishStep(e, reward, is_done) ==
    Returned([e EXCEPT !.last_action.reward = RewardMinusSqrt(reward, e.step_num),
                       !.step_num = @ + 1],
             [reward |-> RewardMinusSqrt(reward, e.step_num), done |-> is_done])

\* StudentEnv.step, the test branch after _test
Tested(t, subject) ==
    IF t.exc # "" THEN t
    ELSE IF AllTopScoresAboveTarget(t.env)
    THEN FinishStep([t.env EXCEPT !.cumulative_train_time[subject] = 0],
                    RewardPlus(t.value, R(REWARD_FOR_ACHIEVING_ALL_LEVELS)), 1)
    ELSE FinishStep([t.env EXCEPT !.cumulative_train_time[subject] = 0], t.value, 0)

\* the train branch with the completion bonus of the test branch
Trained_PaysBonus(t) ==
    IF t.exc # "" THEN t
    ELSE IF AllTopScoresAboveTarget(t.env)
    THEN FinishStep(t.env, RewardPlus(t.value, R(REWARD_FOR_ACHIEVING_ALL_LEVELS)), 0)
    ELSE FinishStep(t.env, t.value, 0)

\* StudentEnv.step, the train branch after _train
Trained(t) == IF t.exc # "" THEN t ELSE FinishStep(t.env, t.value, 0)

\* step() that writes last_action before it checks the action
StudentEnv_step_LogsFirst(e, action, z) ==
    IF ~ActionSpaceContains(e, action)
    THEN Raised([e EXCEPT !.last_action = [NoAction EXCEPT !.action = "train"]],
                "AssertionError")
    ELSE IF action[1] = 1
    THEN Tested(_test(Logged(e, action), action[2], action[3], z), action[2])
    ELSE Trained(_train(Logged(e, action), action[2], action[4], action[5], z))

\* StudentEnv.step; z is the sample of the one normal draw the step makes
StudentEnv_step(e, action, z) ==
    IF ~ActionSpaceContains(e, action) THEN Raised(e, "AssertionError")
    ELSE IF action[1] = 1
    THEN Tested(_test(Logged(e, action), action[2], action[3], z), action[2])
    ELSE Trained(_train(Logged(e, action), action[2], action[4], action[5], z))

\* np.random.choice(n, p=p): the values it can return, none if it raises
\* ValueError (p of another length than n, or not a distribution)
ChoiceSupport(n, p) ==
    IF /\ Len(p) = n
       /\ \A i \in 1..Len(p) : RLe(R(0), p[i])
       /\ RSum(p, 1, Len(p)) = R(1)
    THEN {c \in 0..(n - 1) : RLt(R(0), p[c + 1])}
    ELSE {}

\* StudentEnvBypass.step, its last lines
BypassFinishStep(e, reward, is_done) ==
    Returned([e EXCEPT !.last_action.reward = RewardMinusSqrt(reward, e.step_num),
                       !.step_num = @ + 1],
             [reward |-> RewardMinusSqrt(reward, e.step_num), done |-> is_done])

\* the test branch of the variant without the line that zeroes the train time
BypassTested_KeepsTrainTime(t, subject) ==
    IF t.exc # "" THEN t
    ELSE IF AllTopScoresAboveTarget(t.env)
    THEN BypassFinishStep(t.env, RewardPlus(t.value, R(REWARD_FOR_ACHIEVING_ALL_LEVELS)), 1)
    ELSE BypassFinishStep(t.env, t.value, 0)

\* StudentEnvBypass.step, the test branch after _test
BypassTested(t, subject) ==
    IF t.exc # "" THEN t
    ELSE IF AllTopScoresAboveTarget(t.env)
    THEN BypassFinishStep([t.env EXCEPT !.cumulative_train_time[subject] = 0],
                          RewardPlus(t.value, R(REWARD_FOR_ACHIEVING_ALL_LEVELS)), 1)
    ELSE BypassFinishStep([t.env EXCEPT !.cumulative_train_time[subject] = 0], t.value, 0)

\* StudentEnvBypass.step, the train branch after _train
BypassTrained(t) == IF t.exc # "" THEN t ELSE BypassFinishStep(t.env, t.value, 0)

\* the variant training with the type of the action, not the drawn one
StudentEnvBypass_step_KeepsType(e, action, z, c) ==
    IF ~ActionSpaceContains(e, action) THEN Raised(e, "AssertionError")
    ELSE IF action[1] = 1
    THEN BypassTested(_test(Logged(e, action), action[2], action[3], z), action[2])
    ELSE IF ChoiceSupport(e.difficulties_levels, e.prob_ratio) = {}
    THEN Raised(Logged(e, action), "ValueError")
    ELSE BypassTrained(_train(Logged(e, action), action[2], action[4], action[5], z))

\* StudentEnvBypass.step; z is the sample of the normal draw, c the value
\* np.random.choice(self.difficulties_levels, p=self.prob_ratio) returns
StudentEnvBypass_step(e, action, z, c) ==
    IF ~ActionSpaceContains(e, action) THEN Raised(e, "AssertionError")
    ELSE IF action[1] = 1
    THEN BypassTested(_test(Logged(e, action), action[2], action[3], z), action[2])
    ELSE IF ChoiceSupport(e.difficulties_levels, e.prob_ratio) = {}
    THEN Raised(Logged(e, action), "ValueError")
    ELSE BypassTrained(_train(Logged(e, action), action[2], c, action[5], z))

(* ------------------------------- inputs -------------------------------- *)

\* every action the action space contains
ValidActions(e) ==
    {<<i, s, td, lt, ld>> : i \in {0, 1}, s \in 0..(e.num_subjects - 1),
                            td \in 0..(e.difficulties_levels - 1),
                            lt \in 0..(e.learning_type_number - 1),
                            ld \in 0..(e.difficulties_levels - 1)}
TestActions(e) == {a \in ValidActions(e) : a[1] = 1}
TrainActions(e) == {a \in ValidActions(e) : a[1] = 0}

\* the lowest and the highest action of the action space
CornerActions(e) ==
    {<<0, 0, 0, 0, 0>>,
     <<1, e.num_subjects - 1, e.difficulties_levels - 1, e.learning_type_number - 1,
       e.difficulties_levels - 1>>}

\* a corner action with one component moved just outside its bound, and two
\* actions of the wrong arity
InvalidActions(e) ==
    UNION {{[a EXCEPT ![i] = -1], [a EXCEPT ![i] = NVec(e)[i]]} :
              a \in CornerActions(e), i \in 1..5}
        \cup {<<0, 0, 0, 0>>, <<1, 0, 0, 0, 0, 0>>}

\* the test and the train actions with the components they do not read at 0
ProbeTests(e) == {a \in TestActions(e) : a[4] = 0 /\ a[5] = 0}
ProbeTrains(e) == {a \in TrainActions(e) : a[3] = 0}

\* the actions the model steps with: the components a step does not read are
\* 0 (the variant does not read the learning type), and two invalid actions
\* in the first episode
StepInputs(e) ==
    ProbeTests(e)
        \cup {a \in ProbeTrains(e) : e.cls = "StudentEnvBypass" => a[4] = 0}
        \cup (IF e.episode = 0 THEN {<<0, e.num_subjects, 0, 0, 0>>, <<-1, 0, 0, 0, 0>>}
              ELSE {})

\* the sample a step draws: of the test score or of the skill gain
StepSamples(action) == IF action[1] = 1 THEN TestSamples ELSE GainSamples

\* the values np.random.choice can hand to a train step of the variant
BypassChoices(e) ==
    IF ChoiceSupport(e.difficulties_levels, e.prob_ratio) = {} THEN {0}
    ELSE ChoiceSupport(e.difficulties_levels, e.prob_ratio)

\* env.step(action): the method of the class of the object
step(e, action, z, c) ==
    IF e.cls = "StudentEnvBypass" THEN StudentEnvBypass_step(e, action, z, c)
    ELSE StudentEnv_step(e, action, z)

(* ---------------------------- specification ---------------------------- *)

Assign(e) ==
    /\ cls = e.cls /\ prob_ratio = e.prob_ratio
    /\ num_subjects = e.num_subjects
    /\ difficulties_levels = e.difficulties_levels
    /\ learning_type_number = e.learning_type_number
    /\ skills_levels = e.skills_levels
    /\ last_scores = e.last_scores
    /\ mean_skill_gains = e.mean_skill_gains
    /\ difficulties_thresholds = e.difficulties_thresholds
    /\ review_ratio = e.review_ratio
    /\ cumulative_train_time = e.cumulative_train_time
    /\ train_counter = e.train_counter
    /\ episode = e.episode /\ step_num = e.step_num
    /\ last_action = e.last_action

Become(e) ==
    /\ cls' = e.cls /\ prob_ratio' = e.prob_ratio
    /\ num_subjects' = e.num_subjects
    /\ difficulties_levels' = e.difficulties_levels
    /\ learning_type_number' = e.learning_type_number
    /\ skills_levels' = e.skills_levels
    /\ last_scores' = e.last_scores
    /\ mean_skill_gains' = e.mean_skill_gains
    /\ difficulties_thresholds' = e.difficulties_thresholds
    /\ review_ratio' = e.review_ratio
    /\ cumulative_train_time' = e.cumulative_train_time
    /\ train_counter' = e.train_counter
    /\ episode' = e.episode /\ step_num' = e.step_num
    /\ last_action' = e.last_action

\* what a call handed back: the operation, the exception it raised, the
\* action of an accepted step, and the reward and done flag of a step that
\* returned
Outcome(op, r, action) ==
    [op |-> op, exc |-> r.exc,
     action |-> IF r.exc = "AssertionError" THEN <<>> ELSE action,
     reward |-> IF op = "step" /\ r.exc = "" THEN r.value.reward ELSE None,
     done |-> IF op = "step" /\ r.exc = "" THEN r.value.done ELSE None]

\* the call op(action) ends as r
Deliver(op, r, action) == Become(r.env) /\ ret' = Outcome(op, r, action)

Init ==
    \E cfg \in Configs, dr \in InitDraws :
        /\ Assign(StudentEnv__init__(cfg[1], cfg[2], cfg[3], dr))
        /\ ret = [op |-> "__init__", exc |-> "", action |-> <<>>, reward |-> None,
                  done |-> None]

\* No caller in the repository catches an exception: the first call that
\* raises ends the run.
Running == ret.exc = ""

\* env.step(action) on a StudentEnv
Step ==
    /\ Running
    /\ cls = "StudentEnv"
    /\ step_num < MaxSteps
    /\ \E action \in StepInputs(Self) : \E z \in StepSamples(action) :
          Deliver("step", StudentEnv_step(Self, action, z), action)

\* env.step(action) on a StudentEnvBypass
BypassStep ==
    /\ Running
    /\ cls = "StudentEnvBypass"
    /\ step_num < MaxSteps
    /\ \E action \in StepInputs(Self) : \E z \in StepSamples(action) :
          \E c \in BypassChoices(Self) :
             Deliver("step", StudentEnvBypass_step(Self, action, z, c), action)

\* env.reset()
Reset ==
    /\ Running
    /\ episode < MaxEpisodes
    /\ \E dr \in ResetDraws : Deliver("reset", Returned(reset(Self, dr), None), <<>>)

\* StudentEnvBypass(env, prob_ratio) on a newly constructed environment: the
\* variant takes the place of the environment it copies.  What the base
\* constructor draws is overwritten by the copies, so any draws do.
Bypass ==
    /\ Running
    /\ cls = "StudentEnv"
    /\ ret.op = "__init__"
    /\ \E p \in ProbRatioArgs :
          Deliver("__init__",
                  Returned(StudentEnvBypass__init__(Self, p, CHOOSE dr \in InitDraws : TRUE),
                           None),
                  <<>>)

Next == Step \/ BypassStep \/ Reset \/ Bypass

Spec == Init /\ [][Next]_vars

(* ------------------------------ properties ----------------------------- *)

\* the last call was a step() that returned, of a test or of a training
StepReturned == ret.op = "step" /\ ret.exc = ""
TestReturned == StepReturned /\ ret.action[1] = 1
TrainReturned == StepReturned /\ ret.action[1] = 0

\* every subject's latest score on the highest difficulty exceeds TARGET_SCORE
TopScoresAboveTarget ==
    \A s \in 0..(num_subjects - 1) :
        RLt(R(TARGET_SCORE), last_scores[s][difficulties_levels - 1][0])

\* C1 as stated: a step that returns reports done exactly when, after it,
\* every subject's latest score on the highest difficulty exceeds 95.
C1_DoneIffTopScoresAboveTarget ==
    StepReturned => (ret.done = 1 <=> TopScoresAboveTarget)

\* C1: a test step reports done exactly when, after it, every subject's
\* latest score on the highest difficulty exceeds 95; a train step never
\* reports done, whatever the scores are.
C1_DoneIffTestAndTopScoresAboveTarget ==
    StepReturned => (ret.done = 1 <=> (ret.action[1] = 1 /\ TopScoresAboveTarget))

\* a test that completed an episode of two subjects
C1_Witness == TestReturned /\ ret.done = 1 /\ num_subjects = 2

\* the call r of step() on e raised the exception x and left e as it was
RejectedWith(r, e, x) == r.exc = x /\ r.env = e

\* both step() methods reject every action outside the action space with x
EveryInvalidActionRaises(x) ==
    \A action \in InvalidActions(Self) : \A z \in StepSamples(action) :
        /\ RejectedWith(StudentEnv_step(Self, action, z), Self, x)
        /\ RejectedWith(StudentEnvBypass_step(Self, action, z, 0), Self, x)

\* C2 as stated: step() rejects every action outside the action space (a
\* wrong arity or a component out of range) with an InvalidActionError and
\* leaves the state unchanged.
C2_InvalidActionError == EveryInvalidActionRaises("InvalidActionError")

\* C2: step() rejects every action outside the action space (a wrong arity
\* or a component out of range) with an AssertionError, before it changes
\* anything: the object is as it was before the call.
C2_AssertionError == EveryInvalidActionRaises("AssertionError")

\* a step rejected after steps that were accepted
C2_Witness == ret.op = "step" /\ ret.exc = "AssertionError" /\ step_num >= 1

\* the real number a reward stands for is the rational q
RewardValueIs(rw, q) ==
    /\ rw.coef = R(0)
    /\ \E k \in 0..rw.m : k * k = rw.m /\ RSub(rw.rat, R(k)) = q

\* this transition is a step that returned from testing a subject whose
\* cumulative train time was 0 at the call
TestsUntrainedSubject ==
    /\ ret'.op = "step" /\ ret'.exc = "" /\ ret'.action[1] = 1
    /\ cumulative_train_time[ret'.action[2]] = 0

\* C3 as stated: testing a subject whose cumulative train time is 0 yields
\* a reward of exactly TIME_PENALTY_FOR_TEST (-2), whatever the score.
C3_RewardIsTimePenalty ==
    [][TestsUntrainedSubject => RewardValueIs(ret'.reward, R(TIME_PENALTY_FOR_TEST))]_vars

\* the step r of e, if it returned, returned TIME_PENALTY_FOR_TEST minus the
\* square root of e.step_num, plus the completion bonus if it reported done
PaysTimePenaltyAndStepCost(r, e) ==
    r.exc = "" =>
        r.value.reward = [rat |-> R(TIME_PENALTY_FOR_TEST
                                    + (IF r.value.done = 1
                                       THEN REWARD_FOR_ACHIEVING_ALL_LEVELS ELSE 0)),
                          coef |-> R(0), n |-> 1, m |-> e.step_num]

\* C3: a step that tests a subject whose cumulative train time is 0 returns
\* TIME_PENALTY_FOR_TEST - sqrt(step_num), step_num being the counter at the
\* call, plus REWARD_FOR_ACHIEVING_ALL_LEVELS when the step reports done;
\* the sampled score has no other influence on it.
C3_RewardIsTimePenaltyAndStepCost ==
    \A action \in ProbeTests(Self) :
        cumulative_train_time[action[2]] = 0 =>
            \A z \in ScoreSamples :
                PaysTimePenaltyAndStepCost(step(Self, action, z, 0), Self)

\* the first step of an episode, a test (no training came before it), that
\* completed the episode: its reward is 1998
C3_Witness ==
    /\ TestReturned /\ step_num = 1 /\ ret.done = 1
    /\ ret.reward.rat = R(TIME_PENALTY_FOR_TEST + REWARD_FOR_ACHIEVING_ALL_LEVELS)

InSkillRange(x) == RLe(R(0), x) /\ RLe(x, R(100))

ScoresInRange(e) ==
    \A s \in DOMAIN e.last_scores : \A d \in DOMAIN e.last_scores[s] :
        /\ RLe(R(0), e.last_scores[s][d][0]) /\ RLe(e.last_scores[s][d][0], R(100))
        /\ RLe(R(-100), e.last_scores[s][d][1]) /\ RLe(e.last_scores[s][d][1], R(100))

\* C5: in every reachable state, every stored test score (field 0 of a
\* cell) lies in [0, 100] and every stored gain (field 1) in [-100, 100],
\* and so they do after a test with any sample of the score.
C5_ScoresInRange ==
    /\ ScoresInRange(Self)
    /\ \A action \in ProbeTests(Self) : \A z \in ScoreSamples :
          ScoresInRange(StoreScore(Self, action[2], action[3],
                            SampleTestScore(_get_test_mean(Self, action[2], action[3]), z)))

\* a test whose sampled score was clamped to 100, after a test of the same
\* cell that scored less (the stored gain is positive)
C5_Witness ==
    /\ TestReturned
    /\ last_scores[ret.action[2]][ret.action[3]][0] = R(100)
    /\ RLt(R(0), last_scores[ret.action[2]][ret.action[3]][1])
    /\ RLt(last_scores[ret.action[2]][ret.action[3]][1], R(100))

\* the state reset() leaves: zero scores, counters and train times
AllCleared ==
    /\ step_num = 0
    /\ \A s \in DOMAIN last_scores : \A d \in DOMAIN last_scores[s] :
          \A f \in DOMAIN last_scores[s][d] : last_scores[s][d][f] = R(0)
    /\ \A s \in DOMAIN cumulative_train_time : cumulative_train_time[s] = 0
    /\ \A s \in DOMAIN train_counter : \A d \in DOMAIN train_counter[s] :
          \A t \in DOMAIN train_counter[s][d] : train_counter[s][d][t] = R(0)

\* C6: reset() leaves an all-zero score matrix, step_num 0, zero cumulative
\* train times and zero train counters, and adds exactly 1 to the episode
\* counter; no operation ever decreases the episode counter.
C6_ResetClears ==
    [][/\ ret'.op = "reset" => (AllCleared' /\ episode' = episode + 1)
       /\ episode' >= episode]_vars

\* a reset() of an environment that had tested and trained
C6_Witness ==
    /\ ret.op = "reset" /\ episode = 1 /\ last_action.action = "test"
    /\ last_action.test_score # R(0)

\* the improvements the attribution is asked about
Improvements == {R(-3), R(0), R(5)}

\* the call r of _get_mean_type_gain on e returned the stored gains of the
\* cell and left e as it was
ReturnsStored(r, e, subject, difficulty) ==
    /\ r.exc = ""
    /\ r.value = [t \in 0..(e.learning_type_number - 1) |->
                     e.last_scores[subject][difficulty][2 + e.learning_type_number + t]]
    /\ r.env = e

NoTrainingsSinceTest(subject, difficulty) ==
    \A t \in 0..(learning_type_number - 1) : last_scores[subject][difficulty][2 + t] = R(0)

\* C7: for a cell whose training counts since the last test are all zero,
\* _get_mean_type_gain returns the stored per-type gains unchanged, whatever
\* the estimated improvement, and changes neither train_counter nor the
\* score matrix.
C7_NoTrainingsReturnsStored ==
    \A s \in DOMAIN last_scores : \A d \in DOMAIN last_scores[s] :
        NoTrainingsSinceTest(s, d) =>
            \A improvement \in Improvements :
                ReturnsStored(_get_mean_type_gain(Self, s, d, improvement), Self, s, d)

\* a cell just tested (its counts are zero) whose stored gains are not zero
C7_Witness ==
    /\ TestReturned
    /\ NoTrainingsSinceTest(ret.action[2], ret.action[3])
    /\ TypeGains(Self, ret.action[2], ret.action[3]) # Zeros(learning_type_number)

\* C8: on every test action, StudentEnvBypass.step does in a state what
\* StudentEnv.step does in it with the same sample of the score: the same
\* state after, the same reward and done flag, the same exception if one
\* is raised.  The two differ on train actions only.
C8_BypassTestsAsBase ==
    \A action \in ProbeTests(Self) : \A z \in StepSamples(action) :
        StudentEnvBypass_step(Self, action, z, 0) = StudentEnv_step(Self, action, z)

\* a StudentEnvBypass that tested a subject it had trained
C8_Witness ==
    /\ cls = "StudentEnvBypass" /\ TestReturned
    /\ last_action.test_score # R(0)
    /\ cumulative_train_time[ret.action[2]] = 0
    /\ RLt(Rat(970, 10), skills_levels[ret.action[2]])

\* the numbers of difficulty levels the classification is probed with
MaxLevels == 4

\* k is the tier of the skill: threshold k is at most the skill, and the
\* next threshold, if there is one, is above it
InTier(thresholds, skill, k) ==
    /\ k \in DOMAIN thresholds
    /\ RLe(thresholds[k], skill)
    /\ (k + 1) \in DOMAIN thresholds => RLt(skill, thresholds[k + 1])

\* _get_proper_difficulty of an environment with these thresholds
TierOf(thresholds, skill) ==
    _get_proper_difficulty([difficulties_thresholds |-> thresholds], skill)

\* skills around every threshold, and the two ends of the range
ProbeSkills(thresholds) ==
    {R(0), R(100)}
        \cup {thresholds[k] : k \in DOMAIN thresholds}
        \cup {RAdd(thresholds[k], Rat(1, 7)) : k \in DOMAIN thresholds}
        \cup {RSub(thresholds[k], Rat(1, 7)) : k \in DOMAIN thresholds \ {0}}

\* C9: for every skill in [0, 100] and every number D >= 1 of difficulty
\* levels, _get_proper_difficulty returns a tier in 0 .. D-1, the tier whose
\* threshold is the highest one not above the skill; a skill equal to
\* threshold k is classified as tier k.  Every skill of every reachable
\* state is examined with the thresholds of the state, and the skills
\* around the thresholds of 1 .. MaxLevels levels where the thresholds are
\* computed: after the constructor and after reset().
C9_ProperDifficultyIsTier ==
    /\ \A s \in DOMAIN skills_levels :
          InTier(difficulties_thresholds, skills_levels[s],
                 _get_proper_difficulty(Self, skills_levels[s]))
    /\ ret.op \in {"__init__", "reset"} =>
          \A D \in 1..MaxLevels :
             /\ \A skill \in ProbeSkills(Linspace(D)) :
                   InTier(Linspace(D), skill, TierOf(Linspace(D), skill))
             /\ \A k \in 0..(D - 1) : TierOf(Linspace(D), Linspace(D)[k]) = k

\* a test, on the highest of two difficulties, of a subject whose skill is
\* the threshold of that difficulty
C9_Witness ==
    /\ TestReturned /\ difficulties_levels = 2 /\ ret.action[3] = 1
    /\ skills_levels[ret.action[2]] = difficulties_thresholds[1]

\* C10 as stated: the gain profile has one row per subject and one column
\* per learning type, and every cell is at least 0.05.
C10_ProfileShape ==
    /\ Cardinality(DOMAIN mean_skill_gains) = num_subjects
    /\ \A i \in DOMAIN mean_skill_gains :
          /\ Cardinality(DOMAIN mean_skill_gains[i]) = learning_type_number
          /\ \A j \in DOMAIN mean_skill_gains[i] : RLe(Rat(1, 20), mean_skill_gains[i][j])

\* a rational whose denominator is positive: the value of no division by 0
Defined(q) == q[2] > 0

\* the attribution r raised no ZeroDivisionError and returned defined numbers
DividesSafely(r) ==
    /\ r.exc # "ZeroDivisionError"
    /\ r.exc = "" => \A t \in DOMAIN r.value : Defined(r.value[t])

\* the scores around the target the reward of a test is examined with
RewardScores == {R(0), R(94), R(95), R(100)}

\* C11: no accepted step divides by zero or averages with weights that sum
\* to zero.  No step raises ZeroDivisionError; in every reachable state the
\* attribution of every cell divides by a positive total and blends with
\* weights (train_counter, ratio) that are not both zero; the reward of a
\* test divides by the train time of the subject only when it is not 0;
\* train times and train counters are never negative.
C11_NoDivisionByZero ==
    /\ ret.exc # "ZeroDivisionError"
    /\ \A s \in DOMAIN last_scores : \A d \in DOMAIN last_scores[s] :
          /\ DividesSafely(_get_mean_type_gain(Self, s, d, R(1)))
          /\ \A t \in DOMAIN train_counter[s][d] : RLe(R(0), train_counter[s][d][t])
          /\ \A score \in RewardScores :
                Defined(TestReward(Self, s, d, last_scores[s][d][0], score).coef)
    /\ \A s \in DOMAIN cumulative_train_time : cumulative_train_time[s] >= 0

\* a test whose attribution blended with a train counter that was not zero:
\* the counter of the cell has grown past the share of one attribution
C11_Witness ==
    /\ TestReturned
    /\ \E t \in DOMAIN train_counter[ret.action[2]][ret.action[3]] :
          RLt(R(1), train_counter[ret.action[2]][ret.action[3]][t])

\* no entry of train_counter is smaller after this transition than before
CountersNotDecreased ==
    \A s \in DOMAIN train_counter : \A d \in DOMAIN train_counter[s] :
        \A t \in DOMAIN train_counter[s][d] :
            RLe(train_counter[s][d][t], train_counter'[s][d][t])

CountersAllZero ==
    \A s \in DOMAIN train_counter : \A d \in DOMAIN train_counter[s] :
        \A t \in DOMAIN train_counter[s][d] : train_counter[s][d][t] = R(0)

\* C12: within an episode no step, accepted or not, decreases an entry of
\* train_counter, and every entry is 0 right after reset().
C12_CountersGrowWithinEpisode ==
    [][/\ ret'.op = "step" => CountersNotDecreased
       /\ ret'.op = "reset" => CountersAllZero']_vars

\* the first attribution of an episode has raised a train counter
C12_Witness ==
    /\ TestReturned /\ step_num = 2
    /\ \E t \in DOMAIN train_counter[ret.action[2]][ret.action[3]] :
          RLt(R(0), train_counter[ret.action[2]][ret.action[3]][t])

\* the trainings of a cell since its last test, and their number
CountsAt(subject, difficulty) ==
    [t \in 0..(learning_type_number - 1) |-> last_scores[subject][difficulty][2 + t]]
TotalAt(subject, difficulty) == VectorSum(CountsAt(subject, difficulty))

\* this transition is a step that returned from testing a cell that had
\* been trained since its last test: its attribution ran on a positive total
TestsTrainedCell ==
    /\ ret'.op = "step" /\ ret'.exc = "" /\ ret'.action[1] = 1
    /\ RLt(R(0), TotalAt(ret'.action[2], ret'.action[3]))

\* C13 as stated: when the attribution runs for a test at a cell whose
\* training counts have a positive total, train_counter[subject,
\* difficulty, t] grows by count[t] / total for every learning type t, and
\* the train counters of every other cell are unchanged.
C13_CounterGrowsByRatio ==
    [][TestsTrainedCell =>
          \A s \in DOMAIN train_counter : \A d \in DOMAIN train_counter[s] :
              \A t \in DOMAIN train_counter[s][d] :
                  train_counter'[s][d][t] =
                      IF s = ret'.action[2] /\ d = ret'.action[3]
                      THEN RAdd(train_counter[s][d][t],
                                RDiv(CountsAt(s, d)[t], TotalAt(s, d)))
                      ELSE train_counter[s][d][t]]_vars

\* the learning type the training of this transition applied: the one of the
\* action, or in the variant the one it drew (logged as learning_type + 1)
AppliedType ==
    IF cls = "StudentEnv" THEN ret'.action[4] ELSE last_action'.learning_type - 1

\* the train time of every subject but s is as before
OtherTrainTimesUnchanged(s) ==
    \A o \in DOMAIN cumulative_train_time :
        o # s => cumulative_train_time'[o] = cumulative_train_time[o]

\* the reward of the test of this transition was computed from the train
\* time of the subject before the test: the fixed time penalty (with or
\* without the completion bonus) if it was 0, the target reward or the
\* penalty for an unnecessary test if it was not and the score reached 95
RewardFromTrainTimeBefore(s, d) ==
    LET fixed == {R(TIME_PENALTY_FOR_TEST),
                  R(TIME_PENALTY_FOR_TEST + REWARD_FOR_ACHIEVING_ALL_LEVELS)}
    IN  /\ cumulative_train_time[s] = 0 => ret'.reward.rat \in fixed
        /\ (cumulative_train_time[s] > 0 /\ RLe(R(TARGET_SCORE), last_scores'[s][d][0]))
              => ret'.reward.rat \notin fixed

\* C14: cumulative_train_time[s] is the sum of learning_type + 1 over the
\* trainings of subject s since the later of its last test and the last
\* reset().  It is 0 after the constructor and after reset(); a training of
\* s with type t adds t + 1 to it; a test of s sets it to 0 after the reward
\* has been computed from its value before the test; and neither changes
\* the train time of another subject.
C14_TrainTimeIsWeightedCount ==
    [][/\ ret'.op \in {"__init__", "reset"} =>
             \A s \in DOMAIN cumulative_train_time' : cumulative_train_time'[s] = 0
       /\ (ret'.op = "step" /\ ret'.exc = "" /\ ret'.action[1] = 0) =>
             /\ cumulative_train_time'[ret'.action[2]] =
                    cumulative_train_time[ret'.action[2]] + AppliedType + 1
             /\ OtherTrainTimesUnchanged(ret'.action[2])
       /\ (ret'.op = "step" /\ ret'.exc = "" /\ ret'.action[1] = 1) =>
             /\ cumulative_train_time'[ret'.action[2]] = 0
             /\ OtherTrainTimesUnchanged(ret'.action[2])
             /\ RewardFromTrainTimeBefore(ret'.action[2], ret'.action[3])]_vars

\* two trainings of a subject, the second with learning type 1: 1 + 2
C14_Witness ==
    /\ TrainReturned /\ cls = "StudentEnv" /\ ret.action[4] = 1
    /\ cumulative_train_time[ret.action[2]] = 3

\* field 2 + t of cell (s, d) after this transition is what it was, plus n
CountIs(s, d, t, n) == last_scores'[s][d][2 + t] = RAdd(last_scores[s][d][2 + t], R(n))

\* the training counts of every cell but (s, d) are as before
OtherCountsUnchanged(s, d) ==
    \A o \in DOMAIN last_scores : \A k \in DOMAIN last_scores[o] :
        (o # s \/ k # d) =>
            \A t \in 0..(learning_type_number - 1) : CountIs(o, k, t, 0)

TestComponent(reward, done) ==
    RSub(reward.rat, IF done = 1 THEN R(REWARD_FOR_ACHIEVING_ALL_LEVELS) ELSE R(0))

\* this transition is a step that returned from testing a subject with a
\* positive train time, with a new score of at least TARGET_SCORE
TestsTrainedSubjectOnTarget ==
    /\ ret'.op = "step" /\ ret'.exc = "" /\ ret'.action[1] = 1
    /\ cumulative_train_time[ret'.action[2]] > 0
    /\ RLe(R(TARGET_SCORE), last_scores'[ret'.action[2]][ret'.action[3]][0])

\* C16: a test of (subject, difficulty) with a positive train time of the
\* subject and a new score >= 95 contributes
\* REWARD_FOR_ACHIEVING_TARGET_LEVEL * (difficulty + 1) / num_difficulty_levels
\* to the reward if the score stored at the cell before was < 95, and
\* PENALTY_FOR_UNNECESSARY_TEST if it was >= 95 already: the target reward
\* of a cell is not paid again while its score stays at 95 or above.
C16_TargetRewardOnce ==
    [][TestsTrainedSubjectOnTarget =>
          /\ ret'.reward.coef = R(0)
          /\ TestComponent(ret'.reward, ret'.done) =
                IF RLt(last_scores[ret'.action[2]][ret'.action[3]][0], R(TARGET_SCORE))
                THEN Rat(REWARD_FOR_ACHIEVING_TARGET_LEVEL * (ret'.action[3] + 1),
                         difficulties_levels)
                ELSE R(PENALTY_FOR_UNNECESSARY_TEST)]_vars

\* a test that was paid the penalty for an unnecessary test
C16_Witness ==
    /\ TestReturned
    /\ TestComponent(ret.reward, ret.done) = R(PENALTY_FOR_UNNECESSARY_TEST)

\* the reward with q added and the cost of step number k taken off
StepRewardOf(component, q, k) == RewardMinusSqrt(RewardPlus(component, R(q)), k)

\* the reward the step of this transition returned is what _test or _train
\* contributed, less the step cost, plus the completion bonus exactly if the
\* step reported done
BonusExactlyWhenDone ==
    ret'.reward =
        StepRewardOf(IF ret'.action[1] = 1
                     THEN TestReward(Self, ret'.action[2], ret'.action[3],
                                     last_scores[ret'.action[2]][ret'.action[3]][0],
                                     last_scores'[ret'.action[2]][ret'.action[3]][0])
                     ELSE Reward(R(0), R(0), 1, 0),
                     IF ret'.done = 1 THEN REWARD_FOR_ACHIEVING_ALL_LEVELS ELSE 0,
                     step_num)

\* C17: REWARD_FOR_ACHIEVING_ALL_LEVELS is added to the reward of a step
\* exactly when the step reports done: on a test after which every
\* subject's score on the highest difficulty exceeds 95, never on a
\* training and never on a test that reports done = false.
C17_BonusExactlyWhenDone ==
    [][(ret'.op = "step" /\ ret'.exc = "") =>
          /\ BonusExactlyWhenDone
          /\ ret'.done = 1 <=> (ret'.action[1] = 1 /\ TopScoresAboveTarget')]_vars

\* a training, with every top score above the target, that was paid no bonus
C17_Witness ==
    /\ TrainReturned /\ TopScoresAboveTarget
    /\ ret.done = 0 /\ ret.reward.rat = R(0)

\* C18: a test changes no subject's skill and not the gain profile; a
\* training of subject s changes the skill of s only, never decreases it,
\* and does not change the gain profile: no step, returning or raising,
\* changes the profile.
C18_SkillsChangeByTrainingOnly ==
    [][ret'.op = "step" =>
          /\ mean_skill_gains' = mean_skill_gains
          /\ (ret'.exc # "AssertionError" /\ ret'.action[1] = 1) =>
                skills_levels' = skills_levels
          /\ (ret'.exc # "AssertionError" /\ ret'.action[1] = 0) =>
                /\ \A o \in DOMAIN skills_levels :
                      o # ret'.action[2] => skills_levels'[o] = skills_levels[o]
                /\ RLe(skills_levels[ret'.action[2]], skills_levels'[ret'.action[2]])
          /\ ret'.exc = "AssertionError" => skills_levels' = skills_levels]_vars

\* a training that raised the skill of one of two subjects
C18_Witness ==
    /\ TrainReturned /\ num_subjects = 2
    /\ RLt(R(0), last_action.improvement)
    /\ \E o \in DOMAIN skills_levels : o # ret.action[2] /\ skills_levels[o] = R(97)

\* the train action with the learning type replaced by learning_type
WithLearningType(action, learning_type) == [action EXCEPT ![4] = learning_type]

\* C19: in StudentEnvBypass, two train actions that differ only in the
\* learning type, stepped in the same state with the same draws, end in the
\* same successor state with the same exception or the same reward and done
\* flag.
C19_BypassIgnoresLearningType ==
    cls = "StudentEnvBypass" =>
        \A action \in ProbeTrains(Self) : \A z \in GainSamples :
            \A c \in BypassChoices(Self) :
                StudentEnvBypass_step(Self, action, z, c)
                    = StudentEnvBypass_step(Self, WithLearningType(action, 0), z, c)

\* the variant trained with the drawn type 1 on an action of type 0
C19_Witness ==
    /\ TrainReturned /\ cls = "StudentEnvBypass"
    /\ learning_type_number = 2
    /\ ret.action[4] = 0 /\ last_action.learning_type = 2

\* the vector the gain attribution of a test of (subject, difficulty) yields
\* in the current state once the object `scored` holds the new score
AttributedTo(scored, subject, difficulty) ==
    _get_mean_type_gain(scored, subject, difficulty,
        RSub(estimate_skills(ScoreLayer(scored), REVIEW_RATIO)[subject],
             estimate_skills(ScoreLayer(Self), REVIEW_RATIO)[subject])).value
AttributedGain(subject, difficulty, score) ==
    AttributedTo(StoreScore(Self, subject, difficulty, score), subject, difficulty)

\* the gain estimate of type t in row d of subject s, before and after
GainEstimate(s, d, t) == last_scores[s][d][2 + learning_type_number + t]
GainEstimateAfter(s, d, t) == last_scores'[s][d][2 + learning_type_number + t]

\* this transition is a step that returned from a test
ReturnsFromTest == ret'.op = "step" /\ ret'.exc = "" /\ ret'.action[1] = 1

\* every subject's gain estimates became the average of the old value
\* (weight 1) and g (weight 0.5)
AllRowsDamped(g) ==
    \A s \in DOMAIN last_scores : \A d \in DOMAIN last_scores[s] : \A t \in DOMAIN g :
        GainEstimateAfter(s, d, t) = Average(GainEstimate(s, d, t), g[t], R(1), Rat(1, 2))

\* the tested subject's gain estimates became g, every other subject's the
\* average of the old value (weight 1) and g (weight 0.5)
OtherRowsDamped(subject, g) ==
    \A s \in DOMAIN last_scores : \A d \in DOMAIN last_scores[s] : \A t \in DOMAIN g :
        GainEstimateAfter(s, d, t) =
            IF s = subject THEN g[t]
            ELSE Average(GainEstimate(s, d, t), g[t], R(1), Rat(1, 2))

\* C20 as stated: after a test with attributed vector g, the gain estimates
\* of every subject, the tested one included, become (old + 0.5 g) / 1.5 at
\* every difficulty row.
C20_EveryRowDamped ==
    [][ReturnsFromTest =>
          AllRowsDamped(AttributedGain(ret'.action[2], ret'.action[3],
                            last_scores'[ret'.action[2]][ret'.action[3]][0]))]_vars

\* C20, amended: after a test with attributed vector g, the gain estimates
\* of the tested subject become g at every difficulty row, and those of
\* every other subject become (old + 0.5 g) / 1.5 at every difficulty row.
C20_OtherSubjectsDamped ==
    [][ReturnsFromTest =>
          OtherRowsDamped(ret'.action[2],
                          AttributedGain(ret'.action[2], ret'.action[3],
                              last_scores'[ret'.action[2]][ret'.action[3]][0]))]_vars

\* a test after which the other subject holds a third of the tested
\* subject's non-zero gain estimate
C20_Witness ==
    /\ TestReturned /\ num_subjects = 2
    /\ \E o \in DOMAIN last_scores :
          /\ o # ret.action[2]
          /\ GainEstimate(ret.action[2], 0, 0) # R(0)
          /\ GainEstimate(o, 0, 0) = RDiv(GainEstimate(ret.action[2], 0, 0), R(3))

\* the improvement _test estimates for the subject when the test of
\* (subject, difficulty) in the current state stores `score`
EstimatedImprovement(subject, difficulty, score) ==
    RSub(estimate_skills(ScoreLayer(StoreScore(Self, subject, difficulty, score)),
                         REVIEW_RATIO)[subject],
         estimate_skills(ScoreLayer(Self), REVIEW_RATIO)[subject])

\* the estimate the claim gives type t: new_gain for a zero train counter,
\* else the average of the stored estimate (weight: the train counter) and
\* new_gain (weight: count[t] / total)
BlendedEstimate(stored, counter, count, total, new_gain) ==
    IF counter = R(0) THEN new_gain
    ELSE Average(stored, new_gain, counter, RDiv(count, total))

\* the estimates the test of this transition attributed to (subject,
\* difficulty), which it left in the gain fields of the tested cell, are the
\* blended ones, and a type without trainings but with a non-zero train
\* counter kept its stored estimate
AttributionBlends(subject, difficulty, total, new_gain) ==
    \A t \in 0..(learning_type_number - 1) :
        /\ GainEstimateAfter(subject, difficulty, t) =
              BlendedEstimate(GainEstimate(subject, difficulty, t),
                              train_counter[subject][difficulty][t],
                              last_scores[subject][difficulty][2 + t], total, new_gain)
        /\ (/\ last_scores[subject][difficulty][2 + t] = R(0)
            /\ train_counter[subject][difficulty][t] # R(0)) =>
              GainEstimateAfter(subject, difficulty, t) = GainEstimate(subject, difficulty, t)

\* the attribution of the test of this transition, given the total of the
\* trainings of the cell since its last test
BlendsWhenTrained(subject, difficulty, total) ==
    RLt(R(0), total) =>
        AttributionBlends(subject, difficulty, total,
            RDiv(EstimatedImprovement(subject, difficulty,
                                      last_scores'[subject][difficulty][0]), total))

\* C21: when the gain attribution of a test runs at a cell with a total
\* training count > 0 and returns, with new_gain = improvement / total, the
\* estimate of each learning type t is new_gain if the train counter of
\* (subject, difficulty, t) is 0, and otherwise the weighted average of the
\* stored estimate (weight: the train counter) and new_gain (weight:
\* count[t] / total); a type with count[t] = 0 and a non-zero train counter
\* keeps its stored estimate.
C21_AttributionBlends ==
    [][ReturnsFromTest =>
          BlendsWhenTrained(ret'.action[2], ret'.action[3],
              VectorSum(TrainingsSinceTest(Self, ret'.action[2], ret'.action[3])))]_vars

\* a test of a cell trained with type 0 only since its last test, after an
\* earlier test of the subject made its train counters 1: type 1 kept its
\* stored estimate, type 0 holds a blend
C21_Witness ==
    /\ TestReturned /\ learning_type_number = 2 /\ step_num = 4
    /\ train_counter[ret.action[2]][ret.action[3]][1] = R(1)
    /\ GainEstimate(ret.action[2], ret.action[3], 0)
          # GainEstimate(ret.action[2], ret.action[3], 1)

\* the last call was a train step of StudentEnvBypass that the action space
\* accepted
BypassTrainStepped ==
    /\ cls = "StudentEnvBypass" /\ ret.op = "step"
    /\ ret.exc # "AssertionError" /\ ret.action[1] = 0

\* C22: in StudentEnvBypass the learning type a train step substitutes is an
\* index in [0, num_learning_types), and the train step does not index the
\* gain profile or the count fields of the score matrix out of range.
C22_SubstitutedTypeInRange ==
    BypassTrainStepped =>
        /\ ret.exc # "IndexError"
        /\ ret.exc = "" =>
              last_action.learning_type - 1 \in 0..(learning_type_number - 1)

====
